---------------------------- MODULE Spec2Model ----------------------------
(***************************************************************************)
(* Model of multiplication_deux_matrices.c: a host program that multiplies *)
(* two N x N matrices on an OpenCL GPU device.                             *)
(*                                                                         *)
(* The host is a straight-line sequence of OpenCL API calls, each followed *)
(* by checkError (except the program build, the build-log query and the    *)
(* release calls).  The device side is one command queue, created with     *)
(* properties 0 (in-order), whose commands the device executes on its own  *)
(* while the host runs: two buffer writes, one NDRange kernel whose        *)
(* work-items run in any order, and one buffer read.                       *)
(*                                                                         *)
(* The source fixes N = MATRIX_SIZE = 512, a local size of 16 x 16 and a   *)
(* printed corner of 10 x 10.  The driver model is parametric in the three *)
(* (N, localSize, PrintDim) and ranges them over small values; the         *)
(* accumulation model (SpecAcc) keeps MATRIX_SIZE = 512 and the full       *)
(* element range of rand() % 100.                                          *)
(***************************************************************************)
EXTENDS Integers, Sequences, FiniteSets, TLC

(***************************************************************************)
(* Bounds of the driver model.                                             *)
(***************************************************************************)
\* largest matrix dimension N the driver model runs (512 in the source)
MaxN == 2
\* largest local work-group dimension tried (16 in the source)
MaxLocal == 2
\* side of the printed top-left block (10 in the source); N >= PrintDim
PrintDim == 1
\* initial states of the pseudo-random generator: 1..MaxSeed
MaxSeed == 2

(***************************************************************************)
(* Program constants.                                                      *)
(***************************************************************************)
MATRIX_SIZE == 512
\* a variant of RandMod: rand() % 1000
RandModWide == 10 * 100
\* rand() % 100
RandMod == 100
\* status codes of CL/cl.h
CL_SUCCESS == 0
CL_DEVICE_NOT_FOUND == -1
CL_OUT_OF_RESOURCES == -5
CL_OUT_OF_HOST_MEMORY == -6
CL_BUILD_PROGRAM_FAILURE == -11
CL_INVALID_VALUE == -30
CL_INVALID_WORK_GROUP_SIZE == -54
CL_PLATFORM_NOT_FOUND_KHR == -1001
\* the content of memory that was allocated and never written
\* (malloc, clCreateBuffer with a NULL host pointer)
Uninit == -1

(***************************************************************************)
(* 32-bit float arithmetic on the integer values the program computes.     *)
(* A float has a 24-bit significand: an integer below 2^24 is exact, a     *)
(* larger one is rounded to the nearest multiple of its ulp, ties to even. *)
(***************************************************************************)
TwoPow24 == 16777216

RECURSIVE Ulp(_)
Ulp(x) == IF x < 2 * TwoPow24 THEN 2 ELSE 2 * Ulp(x \div 2)

RoundF(x) ==
    IF x < TwoPow24 THEN x
    ELSE LET u == Ulp(x)
             q == x \div u
             r == x % u
         IN  IF 2 * r < u THEN q * u
             ELSE IF 2 * r > u THEN (q + 1) * u
             ELSE IF q % 2 = 0 THEN q * u ELSE (q + 1) * u

FMul(a, b) == RoundF(a * b)
FAdd(a, b) == RoundF(a + b)

(***************************************************************************)
(* rand(): the C library's generator, unseeded.  Its sequence is           *)
(* implementation-defined; the model uses the generator of the C           *)
(* standard's sample implementation (next = next * 1103515245 + 12345;     *)
(* return (next / 65536) % 32768) from an arbitrary initial state.  The    *)
(* state is kept modulo 2^31 (the bits the result depends on) and the      *)
(* product is computed on 16-bit halves.                                   *)
(***************************************************************************)
RandNext(s) ==
    LET hi == s \div 65536
        lo == s % 65536
        t  == lo * 20077 + 12345
    IN  ((hi * 20077 + lo * 16838 + (t \div 65536)) % 32768) * 65536
        + (t % 65536)

RandValue(s) == (s \div 65536) % 32768

(***************************************************************************)
(* State.                                                                  *)
(***************************************************************************)
VARIABLES
    pc,         \* the host's position in main
    N,          \* int N, the matrix dimension (also kernel argument 3)
    localSize,  \* localSize[0] = localSize[1]
    rng,        \* the state of rand()
    iFill,      \* int i of the loop that fills A and B
    A, B, C,    \* the host matrices, row-major, indexed 0 .. N*N-1
    dev,        \* device memory: the contents of bufferA, bufferB, bufferC
    karg,       \* the kernel's arguments 0..3 (karg[i+1] is argument i)
    queue,      \* the command queue: the commands enqueued and not yet done
    finished,   \* the commands the device has completed
    done,       \* the work-items of the kernel that have run
    writes,     \* per cell of bufferC, the number of kernel stores to it
    calls,      \* every API call made so far, with its arguments and status
    acquired,   \* the resources created, in creation order
    rel,        \* the index of the next release call of the cleanup
    freed,      \* whether the host matrices were freed
    stdout,     \* the lines printed to standard output
    stderr,     \* the messages printed to standard error
    exitCode,   \* <<>> while the process runs, <<code>> once it has ended
    acc         \* one work-item's loop at full size (SpecAcc): k, sum, exact

vars == <<pc, N, localSize, rng, iFill, A, B, C, dev, karg, queue, finished,
          done, writes, calls, acquired, rel, freed, stdout, stderr,
          exitCode, acc>>

Cells == 0 .. (N * N - 1)
\* one work-item per point <<get_global_id(0), get_global_id(1)>>
WorkItems == (0 .. (N - 1)) \X (0 .. (N - 1))
Buffers == {"bufferA", "bufferB", "bufferC"}
Resources == {"context", "queue", "program", "kernel"} \cup Buffers

\* what each resource was created from
DependsOn(r) ==
    CASE r = "context" -> {}
      [] r = "queue"   -> {"context"}
      [] r = "program" -> {"context"}
      [] r = "kernel"  -> {"program", "context"}
      [] OTHER         -> {"context"}

Init ==
    /\ pc = "fill"
    /\ N \in PrintDim .. MaxN
    /\ localSize \in 1 .. MaxLocal
    /\ rng \in 1 .. MaxSeed
    /\ iFill = 0
    /\ A = [i \in Cells |-> Uninit]
    /\ B = [i \in Cells |-> Uninit]
    /\ C = [i \in Cells |-> Uninit]
    /\ dev = [b \in Buffers |-> <<>>]
    /\ karg = <<"unset", "unset", "unset", 0>>
    /\ queue = <<>>
    /\ finished = {}
    /\ done = {}
    /\ writes = [i \in Cells |-> 0]
    /\ calls = <<>>
    /\ acquired = <<>>
    /\ rel = 1
    /\ freed = FALSE
    /\ stdout = <<>>
    /\ stderr = <<>>
    /\ exitCode = <<>>
    /\ acc = [k |-> 0, sum |-> 0, exact |-> 0]

(***************************************************************************)
(* The OpenCL runtime: the statuses a call may return.                     *)
(***************************************************************************)
Failures(api) ==
    CASE api = "clGetPlatformIDs"      -> {CL_PLATFORM_NOT_FOUND_KHR}
      [] api = "clGetDeviceIDs"        -> {CL_DEVICE_NOT_FOUND}
      [] api = "clBuildProgram"        -> {CL_BUILD_PROGRAM_FAILURE}
      [] api = "clGetProgramBuildInfo" -> {CL_INVALID_VALUE}
      [] api \in {"clEnqueueWriteBuffer", "clEnqueueNDRangeKernel",
                  "clEnqueueReadBuffer", "clReleaseMemObject",
                  "clReleaseKernel", "clReleaseProgram",
                  "clReleaseCommandQueue", "clReleaseContext"}
                                       -> {CL_OUT_OF_RESOURCES}
      [] OTHER                         -> {CL_OUT_OF_HOST_MEMORY}

Outcomes(api) == {CL_SUCCESS} \cup Failures(api)

\* the record of one API call
ApiCall(api, op, args, st) ==
    calls' = Append(calls, [api |-> api, op |-> op, args |-> args,
                            status |-> st])

(***************************************************************************)
(* checkError and the host's steps up to the data transfer.                *)
(***************************************************************************)
ErrorLine(operation, err) ==
    [text |-> "Error during operation", op |-> operation, code |-> err]

\* a variant of checkError that prints the message and returns to main
checkErrorNoExit(err, operation, cont) ==
    /\ stderr' = IF err # CL_SUCCESS
                 THEN Append(stderr, ErrorLine(operation, err)) ELSE stderr
    /\ pc' = cont
    /\ UNCHANGED exitCode

\* a variant of checkError that ends the process with exit(0)
checkErrorExitZero(err, operation, cont) ==
    IF err # CL_SUCCESS
    THEN /\ stderr' = Append(stderr, ErrorLine(operation, err))
         /\ exitCode' = <<0>>
         /\ pc' = "exited"
    ELSE /\ pc' = cont
         /\ UNCHANGED <<stderr, exitCode>>

\* checkError(err, operation), then the statement at cont
checkError(err, operation, cont) ==
    IF err # CL_SUCCESS
    THEN /\ stderr' = Append(stderr, ErrorLine(operation, err))
         /\ exitCode' = <<1>>
         /\ pc' = "exited"
    ELSE /\ pc' = cont
         /\ UNCHANGED <<stderr, exitCode>>

\* one iteration of
\*   for (i = 0; i < N*N; i++) { A[i] = rand() % 100; B[i] = rand() % 100; }
Fill ==
    /\ pc = "fill"
    /\ iFill < N * N
    /\ LET s1 == RandNext(rng)
           s2 == RandNext(s1)
       IN  /\ A' = [A EXCEPT ![iFill] = RandValue(s1) % RandMod]
           /\ B' = [B EXCEPT ![iFill] = RandValue(s2) % RandMod]
           /\ rng' = s2
    /\ iFill' = iFill + 1
    /\ pc' = IF iFill + 1 < N * N THEN "fill" ELSE "platform"
    /\ UNCHANGED <<acc, N, localSize, C, dev, karg, queue, finished, done,
                   writes, calls, acquired, rel, freed, stdout, stderr,
                   exitCode>>

\* a call that touches no host or device data: the call, checkError, and on
\* success the resources it creates
Checked(here, api, op, args, creates, cont) ==
    /\ pc = here
    /\ \E err \in Outcomes(api) :
         /\ ApiCall(api, op, args, err)
         /\ checkError(err, op, cont)
         /\ acquired' = IF err = CL_SUCCESS THEN acquired \o creates
                        ELSE acquired
    /\ UNCHANGED <<acc, iFill, N, localSize, rng, A, B, C, karg, queue,
                   finished, done, writes, rel, freed, stdout>>

GetPlatformIDs ==
    /\ Checked("platform", "clGetPlatformIDs", "Getting platform", {}, <<>>,
               "device")
    /\ UNCHANGED dev

GetDeviceIDs ==
    /\ Checked("device", "clGetDeviceIDs", "Getting device", {}, <<>>,
               "context")
    /\ UNCHANGED dev

CreateContext ==
    /\ Checked("context", "clCreateContext", "Creating context", {},
               <<"context">>, "queue")
    /\ UNCHANGED dev

CreateCommandQueue ==
    /\ Checked("queue", "clCreateCommandQueue", "Creating command queue",
               {"context"}, <<"queue">>, "bufA")
    /\ UNCHANGED dev

\* clCreateBuffer(context, flags, bytes, NULL, &err): N*N floats, not
\* initialized
CreateBuffer(here, b, op, cont) ==
    /\ Checked(here, "clCreateBuffer", op, {"context"}, <<b>>, cont)
    /\ dev' = IF pc' = cont
              THEN [dev EXCEPT ![b] = [i \in Cells |-> Uninit]]
              ELSE dev

CreateBufferA == CreateBuffer("bufA", "bufferA", "Creating buffer A", "bufB")
CreateBufferB == CreateBuffer("bufB", "bufferB", "Creating buffer B", "bufC")
CreateBufferC == CreateBuffer("bufC", "bufferC", "Creating buffer C", "writeA")

(***************************************************************************)
(* The data transfer to the device.  clEnqueueWriteBuffer puts a write     *)
(* command on the queue; with blocking_write = CL_TRUE it returns once the *)
(* device has executed that command.                                       *)
(***************************************************************************)
\* a variant of ReadBlocking: the read-back issued with CL_FALSE
ReadNotBlocking == FALSE

\* a variant of WriteBlocking: the transfers issued with CL_FALSE
WriteNotBlocking == FALSE

\* the blocking_write argument of the two clEnqueueWriteBuffer calls
WriteBlocking == TRUE
\* the blocking_read argument of the clEnqueueReadBuffer call
ReadBlocking == TRUE

\* an enqueue call: on success the command cmd is queued and the host goes to
\* wait (a blocking call) or to cont; on failure nothing is queued
Enqueue(here, api, op, args, cmd, blocking, wait, cont) ==
    /\ pc = here
    /\ \E err \in Outcomes(api) :
         /\ ApiCall(api, op, args, err)
         /\ checkError(err, op, IF blocking THEN wait ELSE cont)
         /\ queue' = IF err = CL_SUCCESS THEN Append(queue, cmd) ELSE queue
    /\ UNCHANGED <<acc, iFill, N, localSize, rng, A, B, C, dev, karg,
                   finished, done, writes, acquired, rel, freed, stdout>>

\* the return of a blocking enqueue call: its command has completed
Return(wait, cmd, cont) ==
    /\ pc = wait
    /\ cmd \in finished
    /\ pc' = cont
    /\ UNCHANGED <<acc, iFill, N, localSize, rng, A, B, C, dev, karg, queue,
                   finished, done, writes, calls, acquired, rel, freed,
                   stdout, stderr, exitCode>>

WriteBufferA ==
    Enqueue("writeA", "clEnqueueWriteBuffer", "Copying A to device",
            {"queue", "bufferA"}, "writeA", WriteBlocking, "waitA", "writeB")

WriteBufferAReturn == Return("waitA", "writeA", "writeB")

WriteBufferB ==
    Enqueue("writeB", "clEnqueueWriteBuffer", "Copying B to device",
            {"queue", "bufferB"}, "writeB", WriteBlocking, "waitB", "program")

WriteBufferBReturn == Return("waitB", "writeB", "program")

(***************************************************************************)
(* Program, build, kernel and its arguments.                               *)
(***************************************************************************)
CreateProgramWithSource ==
    /\ Checked("program", "clCreateProgramWithSource", "Creating program",
               {"context"}, <<"program">>, "build")
    /\ UNCHANGED dev

\* a variant of BuildProgram that drops the status of the build
BuildProgramUnchecked ==
    /\ pc = "build"
    /\ \E err \in Outcomes("clBuildProgram") :
         ApiCall("clBuildProgram", "Building program", {"program"}, err)
    /\ pc' = "kernel"
    /\ UNCHANGED <<acc, iFill, N, localSize, rng, A, B, C, dev, karg, queue,
                   finished, done, writes, acquired, rel, freed, stdout,
                   stderr, exitCode>>

\* err = clBuildProgram(...); if (err != CL_SUCCESS) { ... }: no checkError
BuildProgram ==
    /\ pc = "build"
    /\ \E err \in Outcomes("clBuildProgram") :
         /\ ApiCall("clBuildProgram", "Building program", {"program"}, err)
         /\ pc' = IF err # CL_SUCCESS THEN "buildlog" ELSE "kernel"
    /\ UNCHANGED <<acc, iFill, N, localSize, rng, A, B, C, dev, karg, queue,
                   finished, done, writes, acquired, rel, freed, stdout,
                   stderr, exitCode>>

\* what char buffer[10240] may hold when clGetProgramBuildInfo has not
\* written it: it is not initialized
StaleBuffer == {"", "stale stack bytes"}

\* the failed build's branch: the build log is queried into buffer (the
\* status of the query is dropped), buffer is printed, exit(1)
BuildFailed ==
    /\ pc = "buildlog"
    /\ \E err \in Outcomes("clGetProgramBuildInfo") :
         /\ ApiCall("clGetProgramBuildInfo", "Getting build log", {"program"},
                    err)
         /\ \E buffer \in (IF err = CL_SUCCESS THEN {"build log"}
                           ELSE StaleBuffer) :
              stderr' = Append(stderr, [text |-> "CL Compilation failed",
                                        log |-> buffer])
    /\ exitCode' = <<1>>
    /\ pc' = "exited"
    /\ UNCHANGED <<acc, iFill, N, localSize, rng, A, B, C, dev, karg, queue,
                   finished, done, writes, acquired, rel, freed, stdout>>

CreateKernel ==
    /\ Checked("kernel", "clCreateKernel", "Creating kernel", {"program"},
               <<"kernel">>, "arg0")
    /\ UNCHANGED dev

\* clSetKernelArg(kernel, i, size, &value)
SetKernelArg(here, i, value, uses, op, cont) ==
    /\ pc = here
    /\ \E err \in Outcomes("clSetKernelArg") :
         /\ ApiCall("clSetKernelArg", op, {"kernel"} \cup uses, err)
         /\ checkError(err, op, cont)
         /\ karg' = IF err = CL_SUCCESS THEN [karg EXCEPT ![i + 1] = value]
                    ELSE karg
    /\ UNCHANGED <<acc, iFill, N, localSize, rng, A, B, C, dev, queue,
                   finished, done, writes, acquired, rel, freed, stdout>>

SetKernelArg0 ==
    SetKernelArg("arg0", 0, "bufferA", {"bufferA"}, "Setting kernel arg 0",
                 "arg1")
SetKernelArg1 ==
    SetKernelArg("arg1", 1, "bufferB", {"bufferB"}, "Setting kernel arg 1",
                 "arg2")
SetKernelArg2 ==
    SetKernelArg("arg2", 2, "bufferC", {"bufferC"}, "Setting kernel arg 2",
                 "arg3")
SetKernelArg3 ==
    SetKernelArg("arg3", 3, N, {}, "Setting kernel arg 3", "enqueue")

(***************************************************************************)
(* Kernel launch and read-back.                                            *)
(***************************************************************************)
\* clEnqueueNDRangeKernel(queue, kernel, 2, NULL, {N, N}, {16, 16}, ...): the
\* call only enqueues the kernel.  The runtime rejects a global size that
\* the local size does not divide.
EnqueueNDRangeKernel ==
    /\ pc = "enqueue"
    /\ \E err \in (IF N % localSize # 0 THEN {CL_INVALID_WORK_GROUP_SIZE}
                   ELSE Outcomes("clEnqueueNDRangeKernel")) :
         /\ ApiCall("clEnqueueNDRangeKernel", "Enqueueing kernel",
                    {"queue", "kernel"}, err)
         /\ checkError(err, "Enqueueing kernel", "read")
         /\ queue' = IF err = CL_SUCCESS THEN Append(queue, "kernel")
                     ELSE queue
    /\ UNCHANGED <<acc, iFill, N, localSize, rng, A, B, C, dev, karg,
                   finished, done, writes, acquired, rel, freed, stdout>>

ReadBuffer ==
    Enqueue("read", "clEnqueueReadBuffer", "Reading result",
            {"queue", "bufferC"}, "read", ReadBlocking, "waitRead", "print")

ReadBufferReturn == Return("waitRead", "read", "print")

\* printf("%f ", x) for a float holding an integer value: the integer part,
\* a point and six decimals
FormatF(x) == [int |-> x, frac |-> "000000"]

\* for i < 10, for j < 10: printf("%f ", C[i * N + j]); a newline per i
PrintResult ==
    /\ pc = "print"
    /\ stdout' = [i \in 1 .. PrintDim |->
                    [j \in 1 .. PrintDim |->
                       FormatF(C[(i - 1) * N + (j - 1)])]]
    /\ pc' = "release"
    /\ UNCHANGED <<acc, iFill, N, localSize, rng, A, B, C, dev, karg, queue,
                   finished, done, writes, calls, acquired, rel, freed,
                   stderr, exitCode>>

(***************************************************************************)
(* Cleanup.                                                                *)
(***************************************************************************)
\* a variant of ReleaseOrder: the program released before the kernel
ReleaseOrderProgramFirst ==
    <<"bufferA", "bufferB", "bufferC", "program", "kernel", "queue",
      "context">>

\* a variant of ReleaseOrder: the context released first
ReleaseOrderContextFirst ==
    <<"context", "bufferA", "bufferB", "bufferC", "kernel", "program",
      "queue">>

\* the release calls of the cleanup, in program order
ReleaseOrder ==
    <<"bufferA", "bufferB", "bufferC", "kernel", "program", "queue",
      "context">>

ReleaseApi(r) ==
    CASE r \in Buffers -> "clReleaseMemObject"
      [] r = "kernel"  -> "clReleaseKernel"
      [] r = "program" -> "clReleaseProgram"
      [] r = "queue"   -> "clReleaseCommandQueue"
      [] OTHER         -> "clReleaseContext"

\* one release call; its status is dropped
Release ==
    /\ pc = "release"
    /\ rel <= Len(ReleaseOrder)
    /\ \E err \in Outcomes(ReleaseApi(ReleaseOrder[rel])) :
         ApiCall(ReleaseApi(ReleaseOrder[rel]), "Releasing",
                 {ReleaseOrder[rel]}, err)
    /\ rel' = rel + 1
    /\ UNCHANGED <<acc, iFill, pc, N, localSize, rng, A, B, C, dev, karg,
                   queue, finished, done, writes, acquired, freed, stdout,
                   stderr, exitCode>>

\* free(A); free(B); free(C); return 0;
FreeAndReturn ==
    /\ pc = "release"
    /\ rel > Len(ReleaseOrder)
    /\ freed' = TRUE
    /\ exitCode' = <<0>>
    /\ pc' = "done"
    /\ UNCHANGED <<acc, iFill, N, localSize, rng, A, B, C, dev, karg, queue,
                   finished, done, writes, calls, acquired, rel, stdout,
                   stderr>>

(***************************************************************************)
(* The device.  The queue was created with properties 0: it is in-order,   *)
(* so only its oldest command may execute.                                 *)
(***************************************************************************)
\* the positions of the queue whose command may execute now
Runnable(q) == IF q = <<>> THEN {} ELSE {1}

RemoveAt(q, i) ==
    [j \in 1 .. (Len(q) - 1) |-> IF j < i THEN q[j] ELSE q[j + 1]]

Complete(i) ==
    /\ finished' = finished \cup {queue[i]}
    /\ queue' = RemoveAt(queue, i)

\* a write command: the host matrix is copied into the device buffer
DevWrite ==
    /\ exitCode = <<>>
    /\ \E i \in Runnable(queue) :
         /\ queue[i] \in {"writeA", "writeB"}
         /\ dev' = IF queue[i] = "writeA" THEN [dev EXCEPT !["bufferA"] = A]
                   ELSE [dev EXCEPT !["bufferB"] = B]
         /\ Complete(i)
    /\ UNCHANGED <<acc, iFill, pc, N, localSize, rng, A, B, C, karg, done,
                   writes, calls, acquired, rel, freed, stdout, stderr,
                   exitCode>>

\* int row = get_global_id(1); int col = get_global_id(0);
Row(wi) == wi[2]
Col(wi) == wi[1]

\* a variant of OutIndex: the row used for the column as well
OutIndexRowOnly(wi, n) == Row(wi) * n + Row(wi)

\* the cell of C a work-item stores to: C[row * N + col]
OutIndex(wi, n) == Row(wi) * n + Col(wi)

RECURSIVE Dot(_, _, _, _, _, _)
\* sum after the first k iterations of
\*   for (k = 0; k < N; k++) sum += A[row * N + k] * B[k * N + col];
Dot(a, b, row, col, n, k) ==
    IF k = 0 THEN 0
    ELSE FAdd(Dot(a, b, row, col, n, k - 1),
              FMul(a[row * n + (k - 1)], b[(k - 1) * n + col]))

\* one work-item of the kernel runs: matmul(A, B, C, N) on the buffers and
\* the N the kernel's arguments name
DevWorkItem ==
    /\ exitCode = <<>>
    /\ \E i \in Runnable(queue) :
         /\ queue[i] = "kernel"
         /\ \E wi \in WorkItems \ done :
              LET n   == karg[4]
                  idx == OutIndex(wi, n)
              IN  /\ dev' = [dev EXCEPT ![karg[3]][idx] =
                               Dot(dev[karg[1]], dev[karg[2]], Row(wi),
                                   Col(wi), n, n)]
                  /\ writes' = [writes EXCEPT ![idx] = @ + 1]
                  /\ done' = done \cup {wi}
    /\ UNCHANGED <<acc, iFill, pc, N, localSize, rng, A, B, C, karg, queue,
                   finished, calls, acquired, rel, freed, stdout, stderr,
                   exitCode>>

\* the kernel command completes once every work-item of the N x N range ran
DevKernelComplete ==
    /\ exitCode = <<>>
    /\ \E i \in Runnable(queue) :
         /\ queue[i] = "kernel"
         /\ done = WorkItems
         /\ Complete(i)
    /\ UNCHANGED <<acc, iFill, pc, N, localSize, rng, A, B, C, dev, karg,
                   done, writes, calls, acquired, rel, freed, stdout, stderr,
                   exitCode>>

\* the read command: bufferC is copied into the host matrix C
DevRead ==
    /\ exitCode = <<>>
    /\ \E i \in Runnable(queue) :
         /\ queue[i] = "read"
         /\ C' = dev["bufferC"]
         /\ Complete(i)
    /\ UNCHANGED <<acc, iFill, pc, N, localSize, rng, A, B, dev, karg, done,
                   writes, calls, acquired, rel, freed, stdout, stderr,
                   exitCode>>

(***************************************************************************)
(* The driver's specification.                                             *)
(***************************************************************************)
Next ==
    \/ Fill
    \/ GetPlatformIDs
    \/ GetDeviceIDs
    \/ CreateContext
    \/ CreateCommandQueue
    \/ CreateBufferA
    \/ CreateBufferB
    \/ CreateBufferC
    \/ WriteBufferA
    \/ WriteBufferAReturn
    \/ WriteBufferB
    \/ WriteBufferBReturn
    \/ CreateProgramWithSource
    \/ BuildProgram
    \/ BuildFailed
    \/ CreateKernel
    \/ SetKernelArg0
    \/ SetKernelArg1
    \/ SetKernelArg2
    \/ SetKernelArg3
    \/ EnqueueNDRangeKernel
    \/ ReadBuffer
    \/ ReadBufferReturn
    \/ PrintResult
    \/ Release
    \/ FreeAndReturn
    \/ DevWrite
    \/ DevWorkItem
    \/ DevKernelComplete
    \/ DevRead

Spec == Init /\ [][Next]_vars

(***************************************************************************)
(* The accumulation of one work-item at the program's full size: N =       *)
(* MATRIX_SIZE terms, each the product of two elements rand() % 100 can    *)
(* give.  sum is the kernel's float, exact the integer dot product.        *)
(***************************************************************************)
\* the element values the accumulation draws from: the least and the greatest
ElemSamples == {0, RandMod - 1}

AccInit ==
    /\ pc = "kernel loop"
    /\ N = MATRIX_SIZE
    /\ localSize = 1
    /\ rng = 1
    /\ iFill = 0
    /\ A = <<>>
    /\ B = <<>>
    /\ C = <<>>
    /\ dev = [b \in Buffers |-> <<>>]
    /\ karg = <<"bufferA", "bufferB", "bufferC", MATRIX_SIZE>>
    /\ queue = <<"kernel">>
    /\ finished = {"writeA", "writeB"}
    /\ done = {}
    /\ writes = <<>>
    /\ calls = <<>>
    /\ acquired = <<>>
    /\ rel = 1
    /\ freed = FALSE
    /\ stdout = <<>>
    /\ stderr = <<>>
    /\ exitCode = <<>>
    /\ acc = [k |-> 0, sum |-> 0, exact |-> 0]

\* one iteration of  sum += A[row * N + k] * B[k * N + col]
AccStep ==
    /\ acc.k < N
    /\ \E a \in ElemSamples, b \in ElemSamples :
         acc' = [k     |-> acc.k + 1,
                 sum   |-> FAdd(acc.sum, FMul(a, b)),
                 exact |-> acc.exact + a * b]
    /\ UNCHANGED <<iFill, pc, N, localSize, rng, A, B, C, dev, karg, queue,
                   finished, done, writes, calls, acquired, rel, freed,
                   stdout, stderr, exitCode>>

SpecAcc == AccInit /\ [][AccStep]_vars

(***************************************************************************)
(* Properties.                                                             *)
(***************************************************************************)
\* the calls of main through the read-back, in program order: the API
\* function and the label given to checkError (the build has none)
ExpectedCalls ==
    << <<"clGetPlatformIDs", "Getting platform">>,
       <<"clGetDeviceIDs", "Getting device">>,
       <<"clCreateContext", "Creating context">>,
       <<"clCreateCommandQueue", "Creating command queue">>,
       <<"clCreateBuffer", "Creating buffer A">>,
       <<"clCreateBuffer", "Creating buffer B">>,
       <<"clCreateBuffer", "Creating buffer C">>,
       <<"clEnqueueWriteBuffer", "Copying A to device">>,
       <<"clEnqueueWriteBuffer", "Copying B to device">>,
       <<"clCreateProgramWithSource", "Creating program">>,
       <<"clBuildProgram", "">>,
       <<"clCreateKernel", "Creating kernel">>,
       <<"clSetKernelArg", "Setting kernel arg 0">>,
       <<"clSetKernelArg", "Setting kernel arg 1">>,
       <<"clSetKernelArg", "Setting kernel arg 2">>,
       <<"clSetKernelArg", "Setting kernel arg 3">>,
       <<"clEnqueueNDRangeKernel", "Enqueueing kernel">>,
       <<"clEnqueueReadBuffer", "Reading result">> >>

ReleaseApis ==
    {"clReleaseMemObject", "clReleaseKernel", "clReleaseProgram",
     "clReleaseCommandQueue", "clReleaseContext"}

\* the positions in calls of the calls that failed
Failed == {i \in DOMAIN calls : calls[i].status # CL_SUCCESS}

\* the positions in calls of the release calls
ReleaseCalls == {i \in DOMAIN calls : calls[i].api \in ReleaseApis}

RECURSIVE RefSum(_, _, _, _, _, _)
\* the reference oracle: the integer sum of a[i,k] * b[k,j] over the first
\* m values of k, computed on the host matrices without any rounding
RefSum(a, b, n, i, j, m) ==
    IF m = 0 THEN 0
    ELSE RefSum(a, b, n, i, j, m - 1) + a[i * n + (m - 1)] * b[(m - 1) * n + j]

\* C1: once the read-back has returned (the host is at the print loop or
\* past it) every cell C[i*N + j] of the host output equals the sum over k
\* of A[i*N + k] * B[k*N + j] of the host inputs, and each printed value is
\* that sum, although the kernel was only enqueued.
C1_ProductAtPrint ==
    /\ pc \in {"print", "release", "done"} =>
         \A i \in 0 .. (N - 1), j \in 0 .. (N - 1) :
            C[i * N + j] = RefSum(A, B, N, i, j, N)
    /\ stdout # <<>> =>
         \A i \in 0 .. (PrintDim - 1), j \in 0 .. (PrintDim - 1) :
            stdout[i + 1][j + 1] = FormatF(RefSum(A, B, N, i, j, N))

\* C1's case: the result was printed, and it is a product that tells rows
\* from columns (not symmetric, not zero)
C1_Witness ==
    /\ N > 1
    /\ stdout # <<>>
    /\ pc = "release"
    /\ C[1] # C[N]
    /\ C[0] > 0
    /\ \E i \in Cells : A[i] # B[i]

\* C2: no cell of bufferC is stored to twice; once the kernel command has
\* completed every cell was stored to exactly once; and for N a multiple of
\* the local size the map from work-item to row*N + col is a bijection onto
\* 0 .. N*N-1.
C2_EveryCellOnce ==
    /\ \A c \in Cells : writes[c] <= 1
    /\ "kernel" \in finished => \A c \in Cells : writes[c] = 1
    /\ N % localSize = 0 =>
         \A c \in Cells :
            Cardinality({wi \in WorkItems : OutIndex(wi, N) = c}) = 1

\* C2's case: a kernel of several work-groups has completed
C2_Witness ==
    /\ "kernel" \in finished
    /\ N % localSize = 0
    /\ N > localSize
    /\ done = WorkItems

\* the calls whose status main never looks at
Unchecked == ReleaseApis \cup {"clGetProgramBuildInfo"}

\* the failed calls among those whose status main looks at
CheckedFailed == {i \in Failed : calls[i].api \notin Unchecked}

\* C3 as stated, for a run in which one call fails: whichever API call that
\* is, it is the last call the process makes, no release call is ever made,
\* and the process ends with code 1 and the one line "Error during operation
\* '<name>': <code>" on stderr.
C3_FailStopAnyCall ==
    \A i \in Failed :
       Failed = {i} =>
       /\ i = Len(calls)
       /\ ReleaseCalls = {}
       /\ exitCode # <<>> =>
            /\ exitCode = <<1>>
            /\ stderr = <<ErrorLine(calls[i].op, calls[i].status)>>

\* C3, amended: a failed call whose status goes to checkError is the last
\* call made, and the process has ended with code 1 and the one line naming
\* that call's operation and status; after a failed build at most the
\* build-log query follows; a process that ended with code 1 made no
\* release call and freed nothing, so what it had acquired is leaked.
C3_FailStopChecked ==
    /\ \A i \in Failed :
          /\ calls[i].api \notin Unchecked \cup {"clBuildProgram"} =>
               /\ i = Len(calls)
               /\ i <= Len(ExpectedCalls)
               /\ calls[i].api = ExpectedCalls[i][1]
               /\ pc = "exited"
               /\ exitCode = <<1>>
               /\ stderr = <<ErrorLine(ExpectedCalls[i][2], calls[i].status)>>
          /\ calls[i].api = "clBuildProgram" =>
               /\ Len(calls) <= i + 1
               /\ Len(calls) = i + 1 =>
                    /\ calls[i + 1].api = "clGetProgramBuildInfo"
                    /\ exitCode = <<1>>
    /\ exitCode = <<1>> => ReleaseCalls = {} /\ ~freed /\ CheckedFailed # {}

\* C3's case: a checked call failed after resources were acquired, and the
\* process has ended without releasing them
C3_Witness ==
    /\ exitCode = <<1>>
    /\ Len(acquired) >= 3
    /\ Len(calls) \in Failed
    /\ calls[Len(calls)].api = "clEnqueueWriteBuffer"
    /\ ReleaseCalls = {}

\* C4: after a failed build no kernel-creation, argument-setting,
\* kernel-enqueue or read-back call is made, and the process ends with code
\* 1 having printed the compiler's build log to stderr.
C4_BuildLogPrinted ==
    \A i \in Failed :
       calls[i].api = "clBuildProgram" =>
          /\ \A j \in DOMAIN calls :
                j > i => calls[j].api \notin
                           {"clCreateKernel", "clSetKernelArg",
                            "clEnqueueNDRangeKernel", "clEnqueueReadBuffer"}
          /\ exitCode # <<>> =>
               /\ exitCode = <<1>>
               /\ stderr = <<[text |-> "CL Compilation failed",
                              log |-> "build log"]>>

\* C5 as stated: the host issues an API call only when no earlier call has
\* failed, whichever call that is, and a process that ends after a failed
\* call ends with code 1 and the line naming that call and its status.
C5_EveryStatusChecked ==
    [][/\ Len(calls') > Len(calls) => Failed = {}
       /\ (Failed' # {} /\ exitCode' # <<>>) =>
            /\ exitCode' = <<1>>
            /\ \E i \in Failed' :
                 stderr' = <<ErrorLine(calls'[i].op, calls'[i].status)>>]_vars

\* C5, amended: the host issues an API call only when no earlier call other
\* than a build-log query or a release has failed, except the build-log
\* query, issued right after a failed build; a process that ends after such
\* a failure ends with code 1, with the line naming the call and its status
\* or, for the build, with the compilation message.
C5_StatusCheckedBeforeNextCall ==
    [][/\ Len(calls') > Len(calls) =>
            \/ CheckedFailed = {}
            \/ /\ CheckedFailed = {Len(calls)}
               /\ calls[Len(calls)].api = "clBuildProgram"
               /\ calls'[Len(calls')].api = "clGetProgramBuildInfo"
       /\ (CheckedFailed' # {} /\ exitCode' # <<>>) =>
            /\ exitCode' = <<1>>
            /\ \A i \in CheckedFailed' :
                 IF calls'[i].api = "clBuildProgram"
                 THEN /\ Len(stderr') = 1
                      /\ stderr'[1].text = "CL Compilation failed"
                 ELSE stderr' =
                        <<ErrorLine(calls'[i].op, calls'[i].status)>>]_vars

\* C5's case: a release call failed, its status was dropped, and the process
\* ran on to its normal end
C5_Witness ==
    /\ pc = "done"
    /\ exitCode = <<0>>
    /\ \E i \in Failed : calls[i].api \in ReleaseApis
    /\ CheckedFailed = {}

\* C6 as stated: whenever the host issues an API call, no command is pending
\* or running on the device: each transfer and the kernel launch has
\* completed before the host proceeds.
C6_AllBlocking ==
    [][Len(calls') > Len(calls) => queue = <<>>]_vars

\* C6, amended: the two transfers to the device and the read-back are
\* blocking, the kernel launch is not.  Every API call but the read-back is
\* issued with nothing pending; the kernel launch returns with the kernel
\* still queued; the read-back is issued with at most the kernel pending;
\* and a blocking call returns only when the queue is empty, the read-back
\* only when both the kernel and the read have completed.
C6_BlockingExceptLaunch ==
    [][/\ (/\ Len(calls') > Len(calls)
           /\ calls'[Len(calls')].api # "clEnqueueReadBuffer") =>
             queue = <<>>
       /\ (/\ Len(calls') > Len(calls)
           /\ calls'[Len(calls')].api = "clEnqueueReadBuffer") =>
             /\ queue \in {<<>>, <<"kernel">>}
             /\ calls'[Len(calls')].status = CL_SUCCESS => pc' = "waitRead"
       /\ (pc = "enqueue" /\ pc' = "read") => queue' = <<"kernel">>
       /\ (pc \in {"waitA", "waitB", "waitRead"} /\ pc' # pc) =>
             /\ queue = <<>>
             /\ pc = "waitA" => "writeA" \in finished
             /\ pc = "waitB" => "writeB" \in finished
             /\ pc = "waitRead" => {"kernel", "read"} \subseteq finished
       /\ (pc \in {"writeA", "writeB"} /\ pc' \notin {pc, "exited"}) =>
             pc' \in {"waitA", "waitB"}]_vars

\* C6's case: the host has issued the read-back while the kernel, only part
\* of whose work-items have run, is still on the queue
C6_Witness ==
    /\ pc = "waitRead"
    /\ queue = <<"kernel", "read">>
    /\ done # {}
    /\ done # WorkItems

\* the position of r in the order of creation
AcqPos(r) == CHOOSE i \in DOMAIN acquired : acquired[i] = r

\* the position in calls of the first release call for r
RelPos(r) ==
    CHOOSE i \in ReleaseCalls :
       /\ r \in calls[i].args
       /\ \A j \in ReleaseCalls : r \in calls[j].args => i <= j

\* every resource was created and has a release call
AllReleased ==
    /\ \A r \in Resources : \E i \in DOMAIN acquired : acquired[i] = r
    /\ \A r \in Resources : \E i \in ReleaseCalls : r \in calls[i].args

\* C7 as stated: on normal completion every resource has been released, and
\* for any two resources X acquired before Y, Y is released before X.
C7_ReverseAcquisition ==
    pc = "done" =>
       /\ AllReleased
       /\ \A x \in Resources, y \in Resources :
             AcqPos(x) < AcqPos(y) => RelPos(y) < RelPos(x)

\* C7, amended: on normal completion every resource has been released, and
\* for X acquired before Y, Y is released before X unless X is a device
\* buffer and Y is a device buffer, the program or the kernel: the three
\* buffers are released first, in the order they were created.
C7_ReverseExceptBuffers ==
    pc = "done" =>
       /\ AllReleased
       /\ \A x \in Resources, y \in Resources :
             (/\ AcqPos(x) < AcqPos(y)
              /\ ~(x \in Buffers /\ y \in Buffers \cup {"program", "kernel"}))
                => RelPos(y) < RelPos(x)
       /\ \A x \in Buffers, y \in Buffers \cup {"program", "kernel"} :
             AcqPos(x) < AcqPos(y) => RelPos(x) < RelPos(y)

\* C7's case: the process completed normally, having created the seven
\* resources in the order of main
C7_Witness ==
    /\ pc = "done"
    /\ exitCode = <<0>>
    /\ acquired = <<"context", "queue", "bufferA", "bufferB", "bufferC",
                    "program", "kernel">>

\* C8: the process ends with code 0 only when every call through the
\* read-back succeeded, and then stdout holds PrintDim lines of PrintDim
\* values, the cells C[i*N + j]; it ends with code 1 whenever a call whose
\* status main looks at failed, and then stdout is empty.
C8_ExitCodes ==
    /\ exitCode \in {<<>>, <<0>>, <<1>>}
    /\ exitCode = <<0>> =>
         /\ Len(calls) >= Len(ExpectedCalls)
         /\ \A i \in DOMAIN ExpectedCalls :
               /\ calls[i].api = ExpectedCalls[i][1]
               /\ calls[i].status = CL_SUCCESS
         /\ Len(stdout) = PrintDim
         /\ \A i \in 0 .. (PrintDim - 1) :
               /\ Len(stdout[i + 1]) = PrintDim
               /\ \A j \in 0 .. (PrintDim - 1) :
                     stdout[i + 1][j + 1] = FormatF(C[i * N + j])
    /\ exitCode = <<1>> =>
         /\ stdout = <<>>
         /\ CheckedFailed # {}
    /\ (CheckedFailed # {} /\ exitCode # <<>>) =>
         /\ exitCode = <<1>>
         /\ stdout = <<>>

\* C8's case: a normal end, with the corner of a computed product printed
C8_Witness ==
    /\ exitCode = <<0>>
    /\ Len(stdout) = PrintDim
    /\ stdout[1][1].int > 0

\* C9: on normal completion each of the seven resources has exactly one
\* release call; the buffers, the kernel and the program are released
\* before the queue and the queue before the context; the host matrices are
\* freed only after the seven release calls; and no API call takes as
\* argument a resource that was released, or one created from a resource
\* that was released.
C9_DependencyOrder ==
    /\ pc = "done" =>
         /\ \A r \in Resources :
               Cardinality({i \in ReleaseCalls : calls[i].args = {r}}) = 1
         /\ \A r \in Buffers \cup {"kernel", "program"} :
               RelPos(r) < RelPos("queue")
         /\ RelPos("queue") < RelPos("context")
         /\ freed
    /\ freed => Cardinality(ReleaseCalls) = Cardinality(Resources)
    /\ \A i \in ReleaseCalls, j \in DOMAIN calls :
          i < j =>
             \A x \in calls[j].args :
                /\ x \notin calls[i].args
                /\ calls[i].args \cap DependsOn(x) = {}

\* C9's case: the cleanup has run to its end and the host matrices are freed
C9_Witness ==
    /\ freed
    /\ Cardinality(ReleaseCalls) = Len(ReleaseOrder)
    /\ calls[Len(calls)].api = "clReleaseContext"

\* C10: with elements in 0 .. 99 and N = 512 every product and every
\* partial sum is an integer of at most 512 * 99 * 99 = 5018112 < 2^24, so
\* the float the kernel accumulates equals the exact integer dot product at
\* every step, whatever the order of the terms.
C10_ExactAccumulation ==
    /\ MATRIX_SIZE * (RandMod - 1) * (RandMod - 1) < TwoPow24
    /\ acc.exact <= MATRIX_SIZE * (RandMod - 1) * (RandMod - 1)
    /\ acc.exact >= 0
    /\ acc.sum = acc.exact
    /\ acc.k = 0 =>
         \A a \in 0 .. (RandMod - 1), b \in 0 .. (RandMod - 1) :
            FMul(a, b) = a * b

\* C10's case: all 512 terms accumulated, each the greatest product
C10_Witness ==
    /\ acc.k = MATRIX_SIZE
    /\ acc.exact = MATRIX_SIZE * (RandMod - 1) * (RandMod - 1)
    /\ acc.sum = 5018112

=============================================================================
